---- MODULE Spec2Model ----
(***************************************************************************)
(* Model of the keyword-search pipeline of energypattern-keyword-search.   *)
(*                                                                         *)
(*   SpecNorm  - the pattern normalizer of cfg/patterns.py                 *)
(*   Spec      - the MongoDB corpus adapters of                            *)
(*               processing_pipeline/keyword_matching/services/MongoDB.py  *)
(*   SpecEntry - the entry points extract_from_source_code.py and          *)
(*               extract_from_pr.py, with utils/save_to_file.py            *)
(*   SpecRetry, SpecFetch, SpecReaction - _with_retry, the batching        *)
(*               generators and ReactionDTO of services/GithubDataFetcher  *)
(*   SpecFilter, SpecGet - filter_repositories of repo_filter.py and       *)
(*               github_get of extract_repos_from_git.py                   *)
(*   SpecWsgi  - EnergyWSGIWrapper of paperless-testexperiment/wrapper.py  *)
(*   SpecSave  - save_matches_to_file of utils/save_to_file.py             *)
(*                                                                         *)
(* A Python string is a sequence of one-character strings, so that         *)
(* counting, stripping, comparing and concatenating are computed as the    *)
(* code computes them.                                                     *)
(***************************************************************************)
EXTENDS Integers, Sequences, FiniteSets, TLC

VARIABLES
    qas,                  \* the taxonomy handed to transform_quality_attributes
    keep_regex_notation,  \* its keyword-only flag
    patterns,             \* the mapping it returned
    pc_norm               \* "init" | "done" (returned) | "error" (raised)

norm_vars == <<qas, keep_regex_notation, patterns, pc_norm>>

VARIABLES
    issues_coll,    \* git_issues.<repo_name>: documents in natural order
    prs_coll,       \* git_prs.<repo_name>
    releases_coll,  \* git_releases.<repo_name>
    pr_login,       \* _id -> pull_request.user.login of the pull request a
                    \* stored PR document was mapped from (GitHub's side)
    out,            \* the documents the last aggregation returned
    last_op         \* the adapter that returned them

mongo_vars == <<issues_coll, prs_coll, releases_coll, pr_login, out, last_op>>

VARIABLES
    max_retries,   \* _with_retry's keyword argument
    attempt,       \* the loop variable: calls of fn made so far
    fn_outcomes,   \* what each call of fn did, in order
    wr_pc,         \* "idle" | "loop" | "returned" | "raised"
    wr_value       \* what was returned: "fn()" or "None"

retry_vars == <<max_retries, attempt, fn_outcomes, wr_pc, wr_value>>

VARIABLES
    ep_main,         \* the entry point that runs: "source_code" | "pr"
    ep_pc,           \* "idle" | "loop" | "done" | "raised"
    ep_repo,         \* repositories of selected_repos the loop has taken
    ep_printed,      \* what the run has written for the user, in order
    ep_saved,        \* the calls of save_matches_to_file, in order
    last_processed   \* db["last_processed"] of the keyword_extraction shelf

entry_vars ==
    <<ep_main, ep_pc, ep_repo, ep_printed, ep_saved, last_processed>>

VARIABLES
    candidates,     \* filter_repositories' first argument
    params,         \* its FilterParams
    fr_i,           \* candidates the loop has taken
    results,        \* the list it builds
    helper_calls,   \* the calls of Helpers made so far: <<helper, index>>
    fr_pc           \* "idle" | "loop" | "returned"

filter_vars == <<candidates, params, fr_i, results, helper_calls, fr_pc>>

VARIABLES
    pyjoules_ok,   \* _PYJOULES_OK
    path_info,     \* environ["PATH_INFO"]
    inner_len,     \* chunks the inner application's iterable holds
    w_pc,          \* "idle" | "request" | "passed" | "iterating" | "finished"
    w_events,      \* calls made on the meter, the inner application and the
                   \* CSV handler, and chunks yielded, in order
    w_yielded      \* chunks the wrapped generator has yielded

wsgi_vars == <<pyjoules_ok, path_info, inner_len, w_pc, w_events, w_yielded>>

VARIABLES
    allow_404,      \* github_get's argument
    gg_responses,   \* the responses requests.get has returned, in order
    gg_slept,       \* the sleeps of the rate-limit branches, in order
    backoff,        \* the local of the same name
    gg_pc           \* "idle" | "loop" | "returned" | "raised"

get_vars == <<allow_404, gg_responses, gg_slept, backoff, gg_pc>>

VARIABLES
    f_op,               \* the generator that runs: get_issues, get_prs, get_releases
    f_pc,               \* "idle" | "called" | "loop" | "yielded" | "flushed" |
                        \* "done" | "assert" | "raised"
    batch_size,         \* its argument
    known_pr_numbers,   \* get_prs' second argument
    db,                 \* the shelf of the repository: since, boundary_ts,
                        \* boundary_num, seen_numbers
    boundary_ts,        \* get_prs' locals, as loaded from the shelf
    boundary_num,
    max_ts,
    max_num,
    seen_numbers,
    batch,              \* the list that is filled, yielded and cleared
    yielded,            \* every batch as it was when it was yielded
    mapped,             \* the DTOs appended to batch in this run
    fetched,            \* the numbers repo.get_pull was called with in this run
    consumed,           \* items of the paginated list taken in this run
    last_created_at     \* created_at of the issue the loop holds

fetch_vars ==
    <<f_op, f_pc, batch_size, known_pr_numbers, db, boundary_ts, boundary_num,
      max_ts, max_num, seen_numbers, batch, yielded, mapped, fetched, consumed,
      last_created_at>>

VARIABLES
    reaction_counts,   \* the fields of a ReactionDTO
    last_reaction,     \* the argument of the last add
    add_raised,        \* whether that add raised
    adds               \* calls of add made so far

reaction_vars == <<reaction_counts, last_reaction, add_raised, adds>>

VARIABLES
    files,        \* the result files that exist: path -> rows of the file
    sv_calls,     \* the calls of save_matches_to_file made, in order
    sv_printed    \* what they printed

save_vars == <<files, sv_calls, sv_printed>>

\* Each specification below moves the variables of one component and keeps
\* the others as these predicates set them.
NormIdle ==
    /\ qas = <<>> /\ keep_regex_notation = TRUE
    /\ patterns = <<>> /\ pc_norm = "init"

MongoIdle ==
    /\ issues_coll = <<>> /\ prs_coll = <<>> /\ releases_coll = <<>>
    /\ pr_login = <<>> /\ out = <<>> /\ last_op = "none"

RetryIdle ==
    /\ max_retries = 0 /\ attempt = 0 /\ fn_outcomes = <<>>
    /\ wr_pc = "idle" /\ wr_value = "None"

EntryIdle ==
    /\ ep_main = "none" /\ ep_pc = "idle" /\ ep_repo = 0
    /\ ep_printed = <<>> /\ ep_saved = <<>> /\ last_processed = 0

FilterIdle ==
    /\ candidates = <<>> /\ params = <<>> /\ fr_i = 0
    /\ results = <<>> /\ helper_calls = {} /\ fr_pc = "idle"

WsgiIdle ==
    /\ pyjoules_ok = FALSE /\ path_info = <<>> /\ inner_len = 0
    /\ w_pc = "idle" /\ w_events = <<>> /\ w_yielded = 0

GetIdle ==
    /\ allow_404 = FALSE /\ gg_responses = <<>> /\ gg_slept = <<>>
    /\ backoff = 2 /\ gg_pc = "idle"

FetchIdle ==
    /\ f_op = "none" /\ f_pc = "idle" /\ batch_size = 1
    /\ known_pr_numbers = {} /\ db = <<>>
    /\ boundary_ts = 0 /\ boundary_num = 0 /\ max_ts = 0 /\ max_num = 0
    /\ seen_numbers = {} /\ batch = <<>> /\ yielded = <<>> /\ mapped = <<>>
    /\ fetched = {} /\ consumed = 0 /\ last_created_at = 0

ReactionIdle ==
    /\ reaction_counts = <<>> /\ last_reaction = "" /\ add_raised = FALSE
    /\ adds = 0

SaveIdle == files = <<>> /\ sv_calls = <<>> /\ sv_printed = <<>>

aux_vars ==
    <<retry_vars, entry_vars, filter_vars, wsgi_vars, get_vars, fetch_vars,
      reaction_vars,
      save_vars>>

AuxIdle ==
    /\ RetryIdle /\ EntryIdle /\ FilterIdle /\ WsgiIdle /\ GetIdle
    /\ FetchIdle /\ ReactionIdle /\ SaveIdle

(***************************************************************************)
(* Bounds of the normalizer inputs.                                        *)
(***************************************************************************)
MaxChars == 4      \* characters of all the patterns of a taxonomy together
MaxKeywords == 2   \* patterns of a taxonomy

\* The characters patterns are written with: the space and the hyphen the
\* sort key counts, the backslash, "b" and "?" the stripping regex looks for.
PatternChars == {" ", "-", "\\", "b", "?"}

QaNames == {"datatransfer", "UI"}

SeqsUpTo(S, n) == UNION {[1..k -> S] : k \in 0..n}

\* Code point of a character (Python compares str by code point).
Ord(c) ==
    CASE c = " "  -> 32
      [] c = "-"  -> 45
      [] c = "?"  -> 63
      [] c = "\\" -> 92
      [] c = "b"  -> 98

(***************************************************************************)
(* Python primitives used by cfg/patterns.py                               *)
(***************************************************************************)
\* str.count(ch) for a one-character ch
CountChar(s, ch) == Cardinality({i \in 1..Len(s) : s[i] = ch})

\* s < t on str: lexicographic by code point, a proper prefix is smaller
RECURSIVE StrLessFrom(_, _, _)
StrLessFrom(s, t, i) ==
    IF i > Len(t) THEN FALSE
    ELSE IF i > Len(s) THEN TRUE
    ELSE IF Ord(s[i]) < Ord(t[i]) THEN TRUE
    ELSE IF Ord(s[i]) > Ord(t[i]) THEN FALSE
    ELSE StrLessFrom(s, t, i + 1)

StrLess(s, t) == StrLessFrom(s, t, 1)

\* re.sub(r'\\b|.\?', '', qa): scanning left to right, at each position the
\* alternatives are tried in order; a match (two characters either way) is
\* deleted and the scan resumes after it, otherwise the character is kept.
RECURSIVE StripFrom(_, _)
StripFrom(qa, i) ==
    IF i > Len(qa) THEN <<>>
    ELSE IF i + 1 <= Len(qa) /\ qa[i] = "\\" /\ qa[i + 1] = "b"
         THEN StripFrom(qa, i + 2)
    ELSE IF i + 1 <= Len(qa) /\ qa[i] # "\n" /\ qa[i + 1] = "?"
         THEN StripFrom(qa, i + 2)
    ELSE <<qa[i]>> \o StripFrom(qa, i + 1)

strip_qa_from_regex(qa) == StripFrom(qa, 1)

\* qa_sorter with the word count ascending
qa_sorter_fewer_words_first(qa) ==
    << CountChar(qa, " "), -CountChar(qa, "-"),
       -Len(strip_qa_from_regex(qa)), strip_qa_from_regex(qa) >>

\* qa_sorter with the stripped length ascending, as its comment words it
qa_sorter_shorter_first(qa) ==
    << -CountChar(qa, " "), -CountChar(qa, "-"),
       Len(strip_qa_from_regex(qa)), strip_qa_from_regex(qa) >>

\* The 4-tuple qa_sorter returns.
qa_sorter(qa) ==
    << -CountChar(qa, " "), -CountChar(qa, "-"),
       -Len(strip_qa_from_regex(qa)), strip_qa_from_regex(qa) >>

\* k1 < k2 on the tuples of qa_sorter (Python tuple comparison)
KeyLess(k1, k2) ==
    \/ k1[1] < k2[1]
    \/ k1[1] = k2[1] /\ k1[2] < k2[2]
    \/ k1[1] = k2[1] /\ k1[2] = k2[2] /\ k1[3] < k2[3]
    \/ k1[1] = k2[1] /\ k1[2] = k2[2] /\ k1[3] = k2[3] /\ StrLess(k1[4], k2[4])

\* sorted(xs, key=sorter): stable, ascending by key.  x goes after every
\* element whose key is not greater than its own.
RECURSIVE InsertByKey(_, _)
InsertByKey(x, xs) ==
    IF xs = <<>> THEN <<x>>
    ELSE IF KeyLess(qa_sorter(x), qa_sorter(Head(xs)))
         THEN <<x>> \o xs
         ELSE <<Head(xs)>> \o InsertByKey(x, Tail(xs))

RECURSIVE SortedFrom(_, _)
SortedFrom(xs, n) ==
    IF n = 0 THEN <<>>
    ELSE InsertByKey(xs[n], SortedFrom(xs, n - 1))

\* Insertion from the left keeps equal keys in input order only when each
\* new element lands after its equals, which InsertByKey does.
sorted(xs) == SortedFrom(xs, Len(xs))

\* transform_quality_attributes that strips whatever the flag says
transform_quality_attributes_always_stripping(t, keep) ==
    [i \in 1..Len(t) |->
        [qa |-> t[i].qa,
         keywords |->
            sorted([j \in 1..Len(t[i].keywords) |->
                       strip_qa_from_regex(t[i].keywords[j])])]]

\* transform_quality_attributes(qas, keep_regex_notation=keep)
transform_quality_attributes(t, keep) ==
    [i \in 1..Len(t) |->
        [qa |-> t[i].qa,
         keywords |->
            sorted(IF keep THEN t[i].keywords
                   ELSE [j \in 1..Len(t[i].keywords) |->
                            strip_qa_from_regex(t[i].keywords[j])])]]

(***************************************************************************)
(* Input taxonomies: an insertion-ordered dict over QaNames holding at     *)
(* most MaxKeywords patterns, of at most MaxChars characters in total.     *)
(***************************************************************************)
NameSeqs ==
    {ns \in SeqsUpTo(QaNames, Cardinality(QaNames)) :
        \A i, j \in 1..Len(ns) : i # j => ns[i] # ns[j]}

\* the k patterns the characters c are cut into, pattern j ending at cut[j]
\* and the last one at the end of c
CutInto(c, k, cut) ==
    [j \in 1..k |->
        SubSeq(c, (IF j = 1 THEN 0 ELSE cut[j - 1]) + 1,
                  IF j = k THEN Len(c) ELSE cut[j])]

\* the keywords of l that the assignment a gives to attribute i, in order
RECURSIVE Pick(_, _, _, _)
Pick(l, a, i, n) ==
    IF n = 0 THEN <<>>
    ELSE IF a[n] = i THEN Pick(l, a, i, n - 1) \o <<l[n]>>
    ELSE Pick(l, a, i, n - 1)

\* the taxonomy that gives the keywords l to the attributes ns as a says
Taxonomy(ns, l, a) ==
    [i \in 1..Len(ns) |-> [qa |-> ns[i], keywords |-> Pick(l, a, i, Len(l))]]

(***************************************************************************)
(* The normalizer as a state machine                                       *)
(***************************************************************************)
NormInit ==
    /\ MongoIdle /\ AuxIdle
    /\ \E ns \in NameSeqs, k \in 0..MaxKeywords, n \in 0..MaxChars :
          \E c \in [1..n -> PatternChars], cut \in [1..(k - 1) -> 0..n],
             a \in [1..k -> 1..Len(ns)] :
             /\ k = 0 => n = 0
             /\ \A j \in 1..(k - 2) : cut[j] <= cut[j + 1]
             /\ qas = Taxonomy(ns, CutInto(c, k, cut), a)
    /\ keep_regex_notation \in BOOLEAN
    /\ patterns = <<>>
    /\ pc_norm = "init"

\* cfg/patterns.py:19-21: no pattern is compiled, nothing is raised
Transform ==
    /\ pc_norm = "init"
    /\ patterns' = transform_quality_attributes(qas, keep_regex_notation)
    /\ pc_norm' = "done"
    /\ UNCHANGED <<qas, keep_regex_notation, mongo_vars, aux_vars>>

vars == <<norm_vars, mongo_vars, aux_vars>>

NormNext == Transform

SpecNorm == NormInit /\ [][NormNext]_vars

(***************************************************************************)
(* Properties of the normalizer                                            *)
(***************************************************************************)
Words(p) == CountChar(p, " ") + 1

Hyphens(p) == CountChar(p, "-")

StrippedLen(p) == Len(strip_qa_from_regex(p))

StripAll(t) ==
    [i \in 1..Len(t) |->
        [qa |-> t[i].qa,
         keywords |-> [j \in 1..Len(t[i].keywords) |->
                          strip_qa_from_regex(t[i].keywords[j])]]]

\* C1: in every returned list a pattern with more space-separated words than
\* another pattern of the same attribute stands before it.
C1_MoreWordsFirst ==
    pc_norm = "done" =>
        \A i \in 1..Len(patterns) :
            \A p, q \in 1..Len(patterns[i].keywords) :
                Words(patterns[i].keywords[p]) > Words(patterns[i].keywords[q])
                    => p < q

\* the input listed the pattern with fewer words first and the sort moved it
C1_Witness ==
    /\ pc_norm = "done"
    /\ keep_regex_notation
    /\ \E i \in 1..Len(qas) :
          /\ Len(qas[i].keywords) = 2
          /\ Words(qas[i].keywords[1]) < Words(qas[i].keywords[2])
          /\ patterns[i].keywords = <<qas[i].keywords[2], qas[i].keywords[1]>>

C3_ModesAgreeOnRanking ==
    pc_norm = "done" =>
        IF keep_regex_notation
        THEN transform_quality_attributes(qas, FALSE) = StripAll(patterns)
        ELSE patterns = StripAll(transform_quality_attributes(qas, TRUE))

\* a backslash that is not followed by another character, counted from the
\* end: the number of backslashes the pattern ends with
RECURSIVE TrailingBackslashes(_, _)
TrailingBackslashes(p, n) ==
    IF n = 0 \/ p[n] # "\\" THEN 0 ELSE 1 + TrailingBackslashes(p, n - 1)

\* regex notation: the escape character and the quantifier
HasRegexNotation(p) == \E i \in 1..Len(p) : p[i] \in {"\\", "?"}

\* C4: with keep_regex_notation=False no returned keyword holds regex
\* notation (a backslash escape such as the "\ " of "every\ \*\ minutes" or
\* the "\." of "socket\.io", a boundary marker, a quantifier).
C4_PlainTextKeywords ==
    (pc_norm = "done" /\ ~keep_regex_notation) =>
        \A i \in 1..Len(patterns) :
            \A j \in 1..Len(patterns[i].keywords) :
                ~HasRegexNotation(patterns[i].keywords[j])

\* fragments re.compile rejects: an escape with nothing after it ("bad
\* escape (end of pattern)"), a quantifier with nothing before it ("nothing
\* to repeat")
IsMalformed(p) ==
    \/ TrailingBackslashes(p, Len(p)) % 2 = 1
    \/ Len(p) > 0 /\ p[1] = "?"

\* C5: a taxonomy holding a malformed regex fragment makes
\* transform_quality_attributes raise; it does not return.
C5_MalformedPatternRaises ==
    (/\ pc_norm # "init"
     /\ \E i \in 1..Len(qas) :
           \E j \in 1..Len(qas[i].keywords) : IsMalformed(qas[i].keywords[j]))
        => pc_norm = "error"



(***************************************************************************)
(* The MongoDB corpus adapters                                             *)
(*                                                                         *)
(* BSON values: a string is a sequence of characters; null and a missing   *)
(* field are two values no string equals (no character is "null" or        *)
(* "missing").                                                             *)
(***************************************************************************)
MaxDocs == 1
MaxComments == 1
MaxIssues == 1

Null == <<"null">>

Missing == <<"missing">>

IsNullish(v) == v = Null \/ v = Missing

\* the value of field f of document d
Field(d, f) == IF f \in DOMAIN d THEN d[f] ELSE Missing

\* MongoDB.__init__: self.non_robot_users
non_robot_users ==
    { <<"o","l","g","a","b","o","t">>,
      <<"h","u","g","t","a","l","b","o","t">>,
      <<"a","r","r","o","g","a","n","t","r","o","b","o","t">>,
      <<"r","o","b","o","t","-","c","h","e","n","w","e","i">>,
      <<"B","o","t","-","E","n","i","g","m","a","-","0">> }

UpperCase == <<"A","B","C","D","E","F","G","H","I","J","K","L","M",
               "N","O","P","Q","R","S","T","U","V","W","X","Y","Z">>

LowerCase == <<"a","b","c","d","e","f","g","h","i","j","k","l","m",
               "n","o","p","q","r","s","t","u","v","w","x","y","z">>

Digits == {"0","1","2","3","4","5","6","7","8","9"}

\* \w
WordChars ==
    {UpperCase[i] : i \in 1..Len(UpperCase)} \cup
    {LowerCase[i] : i \in 1..Len(LowerCase)} \cup Digits \cup {"_"}

\* case folding of re.IGNORECASE
Lower(c) ==
    IF \E i \in 1..Len(UpperCase) : UpperCase[i] = c
    THEN LowerCase[CHOOSE i \in 1..Len(UpperCase) : UpperCase[i] = c]
    ELSE c

\* MongoDB.__init__: self.regex_omitting_bots = re.compile(r"bot\b",
\* re.IGNORECASE), searched in s: "bot" in any case, followed by the end of
\* the string or by a character that is not a word character ("t" is one)
regex_omitting_bots(s) ==
    \E i \in 1..(Len(s) - 2) :
        /\ Lower(s[i]) = "b"
        /\ Lower(s[i + 1]) = "o"
        /\ Lower(s[i + 2]) = "t"
        /\ (i + 3 > Len(s) \/ s[i + 3] \notin WordChars)

(***************************************************************************)
(* Query and expression operators of the aggregation pipelines             *)
(***************************************************************************)
\* {field: {"$not": {"$regex": regex_omitting_bots}}}: also true of a
\* field that is null or missing
QueryNotRegex(v) == ~(~IsNullish(v) /\ regex_omitting_bots(v))

\* {field: {"$in": non_robot_users}}
QueryIn(v) == v \in non_robot_users

\* the $or of the two, without the allow-list
MatchBotFilter_no_allow_list(v) == QueryNotRegex(v)

\* {"$or": [{f: {"$not": {"$regex": ...}}}, {f: {"$in": ...}}]}
MatchBotFilter(v) == QueryNotRegex(v) \/ QueryIn(v)

\* {"$regexMatch": {"input": v, "regex": ...}}: false on null or missing
ExprRegexMatch(v) == ~IsNullish(v) /\ regex_omitting_bots(v)

\* {"$or": [{"$not": [{"$regexMatch": ...}]}, {"$in": [v, non_robot_users]}]}
CondBotFilter(v) == ~ExprRegexMatch(v) \/ v \in non_robot_users

\* {"$ifNull": [v, d]}
IfNull(v, d) == IF IsNullish(v) THEN d ELSE v

\* {"$concat": [...]}: null as soon as one operand is null or missing
RECURSIVE ConcatFrom(_, _)
ConcatFrom(parts, n) ==
    IF n = 0 THEN <<>> ELSE ConcatFrom(parts, n - 1) \o parts[n]

Concat(parts) ==
    IF \E i \in 1..Len(parts) : IsNullish(parts[i]) THEN Null
    ELSE ConcatFrom(parts, Len(parts))

Whitespace == {" ", "\n", "\t"}

RECURSIVE TrimLeft(_)
TrimLeft(s) ==
    IF s # <<>> /\ Head(s) \in Whitespace THEN TrimLeft(Tail(s)) ELSE s

RECURSIVE TrimRight(_)
TrimRight(s) ==
    IF s # <<>> /\ s[Len(s)] \in Whitespace
    THEN TrimRight(SubSeq(s, 1, Len(s) - 1)) ELSE s

\* {"$trim": {"input": v}}
Trim(v) == IF IsNullish(v) THEN Null ELSE TrimRight(TrimLeft(v))

\* {"$concatArrays": [...]} of arrays of values
RECURSIVE ConcatArrays(_, _)
ConcatArrays(arrays, n) ==
    IF n = 0 THEN <<>> ELSE ConcatArrays(arrays, n - 1) \o arrays[n]

\* [f(1), ..., f(n)] flattened: the arrays in order, each in its own order
Flatten(arrays) == ConcatArrays(arrays, Len(arrays))

(***************************************************************************)
(* Stored documents: dataclasses.asdict of the DTOs, with the fields the   *)
(* pipelines read.                                                         *)
(***************************************************************************)
alice == <<"a","l","i","c","e">>

some_bot == <<"s","o","m","e","-","b","o","t">>

olgabot == <<"o","l","g","a","b","o","t">>

bottle == <<"b","o","t","t","l","e">>

BOT == <<"B","O","T">>

\* user.login if user else None
Users == {Null, alice, some_bot, olgabot, bottle, BOT}

\* the accounts that open pull requests
PrLogins == {alice, some_bot, olgabot}

DocIds == 1..MaxDocs

Url(kind, id) == <<kind, ToString(id)>>

\* "; " and "\n"
Sep == <<";", " ">>

Newline == <<"\n">>

CommentDTOs == [body : {<<"c">>, Null}, user : Users]

IssueDTOs ==
    { [_id |-> id, html_url |-> Url("issues/", id), title |-> t, body |-> b,
       author |-> a, comments_data |-> cs] :
      id \in DocIds, t \in {<<"I">>, Null}, b \in {<<"i">>, Null},
      a \in Users, cs \in SeqsUpTo(CommentDTOs, MaxComments) }

\* no author and no user field: PullRequestDTO has none
PullRequestDTOs ==
    { [_id |-> id, html_url |-> Url("pull/", id), title |-> t, body |-> b,
       comments_data |-> cs, issues |-> iss] :
      id \in DocIds, t \in {<<"P">>, Null}, b \in {<<"p">>, Null},
      cs \in SeqsUpTo(CommentDTOs, MaxComments),
      iss \in SeqsUpTo(IssueDTOs, MaxIssues) }

ReleaseDTOs ==
    { [_id |-> id, html_url |-> Url("releases/", id), body |-> b,
       author |-> a] :
      id \in DocIds, b \in {<<"r">>, <<" ", "r", "\n">>, Null}, a \in Users }

\* the array field f of d ({"$ifNull": ["$f", []]}; the DTOs always hold a
\* list there)
ArrayField(d, f) == IF f \in DOMAIN d THEN d[f] ELSE <<>>

(***************************************************************************)
(* insert_issues, insert_prs, insert_releases                              *)
(***************************************************************************)
\* UpdateOne({"_id": doc.id}, {"$set": asdict(doc)}, upsert=True): every
\* document of a collection is written with the same fields, so $set
\* replaces the stored one
UpdateOne(coll, doc) ==
    IF \E k \in 1..Len(coll) : coll[k]._id = doc._id
    THEN [k \in 1..Len(coll) |->
             IF coll[k]._id = doc._id THEN doc ELSE coll[k]]
    ELSE Append(coll, doc)

RECURSIVE bulk_write(_, _, _)
bulk_write(coll, documents, n) ==
    IF n = 0 THEN coll
    ELSE UpdateOne(bulk_write(coll, documents, n - 1), documents[n])

TotalDocs == Len(issues_coll) + Len(prs_coll) + Len(releases_coll)

insert_issues ==
    /\ TotalDocs < MaxDocs
    /\ \E n \in 1..MaxDocs : \E documents \in [1..n -> IssueDTOs] :
          issues_coll' = bulk_write(issues_coll, documents, n)
    /\ Len(issues_coll') + Len(prs_coll) + Len(releases_coll) <= MaxDocs
    /\ UNCHANGED <<prs_coll, releases_coll, pr_login, out, last_op, norm_vars,
                 aux_vars>>

\* _map_pr_to_dto keeps none of pull_request.user
insert_prs ==
    /\ TotalDocs < MaxDocs
    /\ \E n \in 1..MaxDocs :
          \E documents \in [1..n -> PullRequestDTOs],
             logins \in [1..n -> PrLogins] :
             /\ prs_coll' = bulk_write(prs_coll, documents, n)
             /\ pr_login' =
                   [id \in DOMAIN pr_login \cup
                           {documents[k]._id : k \in 1..n} |->
                       IF \E k \in 1..n : documents[k]._id = id
                       THEN logins[CHOOSE k \in 1..n :
                                      /\ documents[k]._id = id
                                      /\ \A m \in (k + 1)..n :
                                            documents[m]._id # id]
                       ELSE pr_login[id]]
    /\ Len(issues_coll) + Len(prs_coll') + Len(releases_coll) <= MaxDocs
    /\ UNCHANGED <<issues_coll, releases_coll, out, last_op, norm_vars,
                 aux_vars>>

insert_releases ==
    /\ TotalDocs < MaxDocs
    /\ \E n \in 1..MaxDocs : \E documents \in [1..n -> ReleaseDTOs] :
          releases_coll' = bulk_write(releases_coll, documents, n)
    /\ Len(issues_coll) + Len(prs_coll) + Len(releases_coll') <= MaxDocs
    /\ UNCHANGED <<issues_coll, prs_coll, pr_login, out, last_op, norm_vars,
                 aux_vars>>

(***************************************************************************)
(* The aggregation pipelines.  A returned document holds _id, text and     *)
(* html_url ($project); "of" is not a field of it: it records the array    *)
(* positions $unwind took the document from, to tell the documents of one  *)
(* parent apart.                                                           *)
(***************************************************************************)
Unit(id, text, html_url, of) ==
    [_id |-> id, text |-> text, html_url |-> html_url, of |-> of]

\* $unwind "$f": one row per element of the array f of each document
Unwind(coll, f) ==
    Flatten([k \in 1..Len(coll) |->
                [j \in 1..Len(ArrayField(coll[k], f)) |->
                    [doc |-> coll[k], elem |-> ArrayField(coll[k], f)[j],
                     of |-> <<j>>]]])

\* a second $unwind, of the array f of the element a first one produced
UnwindElem(rows, f) ==
    Flatten([k \in 1..Len(rows) |->
                [j \in 1..Len(ArrayField(rows[k].elem, f)) |->
                    [doc |-> rows[k].doc, parent |-> rows[k].elem,
                     elem |-> ArrayField(rows[k].elem, f)[j],
                     of |-> Append(rows[k].of, j)]]])

extract_comments_pipeline(coll) ==
    LET rows == Unwind(coll, "comments_data")
        matched == SelectSeq(rows,
                       LAMBDA r : MatchBotFilter(Field(r.elem, "user")))
    IN  [k \in 1..Len(matched) |->
            Unit(matched[k].doc._id, Field(matched[k].elem, "body"),
                 Field(matched[k].doc, "html_url"), matched[k].of)]

extract_issues_pipeline(coll) ==
    LET matched == SelectSeq(coll,
                       LAMBDA d : MatchBotFilter(Field(d, "author")))
    IN  [k \in 1..Len(matched) |->
            Unit(matched[k]._id,
                 Concat(<<Field(matched[k], "title"), Sep,
                          Field(matched[k], "body")>>),
                 Field(matched[k], "html_url"), <<>>)]

\* no $match stage
extract_releases_pipeline(coll) ==
    [k \in 1..Len(coll) |->
        Unit(coll[k]._id, Trim(Field(coll[k], "body")),
             Field(coll[k], "html_url"), <<>>)]

extract_prs_pipeline(coll) ==
    LET matched == SelectSeq(coll,
                       LAMBDA d : \/ QueryNotRegex(Field(d, "author"))
                                  \/ QueryIn(Field(d, "author"))
                                  \/ QueryNotRegex(Field(d, "user"))
                                  \/ QueryIn(Field(d, "user")))
    IN  [k \in 1..Len(matched) |->
            Unit(matched[k]._id,
                 Concat(<<Field(matched[k], "title"), Sep,
                          IfNull(Field(matched[k], "body"), <<>>)>>),
                 Field(matched[k], "html_url"), <<>>)]

extract_pr_related_issues_pipeline(coll) ==
    LET rows == Unwind(coll, "issues")
        matched == SelectSeq(rows,
                       LAMBDA r : MatchBotFilter(Field(r.elem, "author")))
    IN  [k \in 1..Len(matched) |->
            Unit(matched[k].doc._id,
                 Concat(<<Field(matched[k].elem, "title"), Sep,
                          IfNull(Field(matched[k].elem, "body"), <<>>)>>),
                 Field(matched[k].elem, "html_url"), matched[k].of)]

extract_pr_related_issue_comments_pipeline(coll) ==
    LET rows == UnwindElem(Unwind(coll, "issues"), "comments_data")
        matched == SelectSeq(rows,
                       LAMBDA r : MatchBotFilter(Field(r.elem, "user")))
    IN  [k \in 1..Len(matched) |->
            Unit(matched[k].doc._id, Field(matched[k].elem, "body"),
                 Field(matched[k].parent, "html_url"), matched[k].of)]

\* the bodies of the comments of cs that pass the bot filter
FilteredCommentBodies(cs) ==
    LET kept == SelectSeq(cs, LAMBDA c : CondBotFilter(Field(c, "user")))
    IN  [k \in 1..Len(kept) |-> IfNull(Field(kept[k], "body"), <<>>)]

pr_text(d) ==
    Concat(<<IfNull(Field(d, "title"), <<>>), Sep,
             IfNull(Field(d, "body"), <<>>)>>)

pr_comment_bodies(d) == FilteredCommentBodies(ArrayField(d, "comments_data"))

issue_texts(d) ==
    LET kept == SelectSeq(ArrayField(d, "issues"),
                          LAMBDA i : CondBotFilter(Field(i, "author")))
    IN  [k \in 1..Len(kept) |->
            Concat(<<IfNull(Field(kept[k], "title"), <<>>), Sep,
                     IfNull(Field(kept[k], "body"), <<>>)>>)]

\* over every related issue, whoever its author is
issue_comment_bodies(d) ==
    LET issueCommentsArrays ==
            [k \in 1..Len(ArrayField(d, "issues")) |->
                FilteredCommentBodies(
                    ArrayField(ArrayField(d, "issues")[k], "comments_data"))]
    IN  Flatten(issueCommentsArrays)

\* the pieces in the order pr_comment_bodies and issue_texts swapped
texts_issues_before_comments(d) ==
    Flatten(<< <<IfNull(pr_text(d), <<>>)>>, issue_texts(d),
               pr_comment_bodies(d), issue_comment_bodies(d) >>)

texts(d) ==
    Flatten(<< <<IfNull(pr_text(d), <<>>)>>, pr_comment_bodies(d),
               issue_texts(d), issue_comment_bodies(d) >>)

\* the $reduce that joins texts: "\n" before a piece unless nothing has
\* been accumulated yet
RECURSIVE JoinReduce(_, _)
JoinReduce(ts, n) ==
    IF n = 0 THEN <<>>
    ELSE LET value == JoinReduce(ts, n - 1)
         IN  Concat(<<value, IF value = <<>> THEN <<>> ELSE Newline, ts[n]>>)

extract_pr_corpus_pipeline(coll) ==
    [k \in 1..Len(coll) |->
        Unit(coll[k]._id, JoinReduce(texts(coll[k]), Len(texts(coll[k]))),
             Field(coll[k], "html_url"), <<>>)]

(***************************************************************************)
(* The adapters as operations on the database                              *)
(***************************************************************************)
\* what an aggregation leaves alone
stored_vars ==
    <<issues_coll, prs_coll, releases_coll, pr_login, norm_vars, aux_vars>>

extract_comments ==
    /\ out' = extract_comments_pipeline(issues_coll)
    /\ last_op' = "extract_comments"
    /\ UNCHANGED stored_vars

extract_issues ==
    /\ out' = extract_issues_pipeline(issues_coll)
    /\ last_op' = "extract_issues"
    /\ UNCHANGED stored_vars

extract_releases ==
    /\ out' = extract_releases_pipeline(releases_coll)
    /\ last_op' = "extract_releases"
    /\ UNCHANGED stored_vars

extract_prs ==
    /\ out' = extract_prs_pipeline(prs_coll)
    /\ last_op' = "extract_prs"
    /\ UNCHANGED stored_vars

extract_pr_comments ==
    /\ out' = extract_comments_pipeline(prs_coll)
    /\ last_op' = "extract_pr_comments"
    /\ UNCHANGED stored_vars

extract_pr_related_issues ==
    /\ out' = extract_pr_related_issues_pipeline(prs_coll)
    /\ last_op' = "extract_pr_related_issues"
    /\ UNCHANGED stored_vars

extract_pr_related_issue_comments ==
    /\ out' = extract_pr_related_issue_comments_pipeline(prs_coll)
    /\ last_op' = "extract_pr_related_issue_comments"
    /\ UNCHANGED stored_vars

extract_pr_corpus ==
    /\ out' = extract_pr_corpus_pipeline(prs_coll)
    /\ last_op' = "extract_pr_corpus"
    /\ UNCHANGED stored_vars

Init == MongoIdle /\ NormIdle /\ AuxIdle

Next ==
    \/ insert_issues
    \/ insert_prs
    \/ insert_releases
    \/ extract_comments
    \/ extract_issues
    \/ extract_releases
    \/ extract_prs
    \/ extract_pr_comments
    \/ extract_pr_related_issues
    \/ extract_pr_related_issue_comments
    \/ extract_pr_corpus

Spec == Init /\ [][Next]_vars

(***************************************************************************)
(* Properties of the corpus adapters.  They are stated of the step an      *)
(* adapter takes: out' is what it returns from the collections as they     *)
(* are stored at that moment.                                              *)
(***************************************************************************)
\* the step taken is the aggregation op: it leaves the collections alone and
\* records itself in last_op
Ran(op) ==
    /\ last_op' = op
    /\ UNCHANGED <<issues_coll, prs_coll, releases_coll, pr_login>>

\* an author/user field in which "bot", in any case, ends at a word boundary
IsBotName(v) == ~IsNullish(v) /\ regex_omitting_bots(v)

\* the rule of spec 4.4: not a bot name, or exactly an allow-listed name
MayBeEmitted(v) == ~IsBotName(v) \/ v \in non_robot_users

\* docs holds a document taken from position of of the stored document id
EmittedIn(docs, id, of) ==
    \E k \in 1..Len(docs) : docs[k]._id = id /\ docs[k].of = of

\* the rule for one record with author/user field v; in particular a record
\* of "some-bot" is not emitted and a record of "olgabot" is
EmittedByRule(emitted, v) ==
    /\ emitted <=> MayBeEmitted(v)
    /\ v = some_bot => ~emitted
    /\ v = olgabot => emitted

\* C7: extract_issues, extract_comments, extract_pr_comments,
\* extract_pr_related_issues and extract_pr_related_issue_comments emit a
\* stored record if and only if its author/user field is not a bot name or
\* is exactly an allow-listed name.
C7_BotRecordsExcluded ==
    [][ /\ Ran("extract_issues") =>
              \A k \in 1..Len(issues_coll) :
                  EmittedByRule(EmittedIn(out', issues_coll[k]._id, <<>>),
                                issues_coll[k].author)
        /\ Ran("extract_comments") =>
              \A k \in 1..Len(issues_coll) :
                  \A j \in 1..Len(issues_coll[k].comments_data) :
                      EmittedByRule(
                          EmittedIn(out', issues_coll[k]._id, <<j>>),
                          issues_coll[k].comments_data[j].user)
        /\ Ran("extract_pr_comments") =>
              \A k \in 1..Len(prs_coll) :
                  \A j \in 1..Len(prs_coll[k].comments_data) :
                      EmittedByRule(
                          EmittedIn(out', prs_coll[k]._id, <<j>>),
                          prs_coll[k].comments_data[j].user)
        /\ Ran("extract_pr_related_issues") =>
              \A k \in 1..Len(prs_coll) :
                  \A j \in 1..Len(prs_coll[k].issues) :
                      EmittedByRule(
                          EmittedIn(out', prs_coll[k]._id, <<j>>),
                          prs_coll[k].issues[j].author)
        /\ Ran("extract_pr_related_issue_comments") =>
              \A k \in 1..Len(prs_coll) :
                  \A j \in 1..Len(prs_coll[k].issues) :
                      \A m \in 1..Len(prs_coll[k].issues[j].comments_data) :
                          EmittedByRule(
                              EmittedIn(out', prs_coll[k]._id, <<j, m>>),
                              prs_coll[k].issues[j].comments_data[m].user)
      ]_vars

\* extract_pr_related_issue_comments has returned the comment of the
\* allow-listed "olgabot" on a related issue
C7_Witness ==
    /\ last_op = "extract_pr_related_issue_comments"
    /\ Len(out) = 1
    /\ Len(prs_coll) = 1
    /\ Len(prs_coll[1].issues) = 1
    /\ Len(prs_coll[1].issues[1].comments_data) = 1
    /\ prs_coll[1].issues[1].comments_data[1].user = olgabot

\* C8: extract_prs emits no pull request that was opened by an account with
\* a bot name that is not allow-listed.
C8_NoBotPullRequests ==
    [][ Ran("extract_prs") =>
            \A k \in 1..Len(out') : MayBeEmitted(pr_login[out'[k]._id]) ]_vars

\* C9: extract_releases emits no release whose author has a bot name that is
\* not allow-listed.
C9_NoBotReleases ==
    [][ Ran("extract_releases") =>
            \A k \in 1..Len(out') :
                \A j \in 1..Len(releases_coll) :
                    releases_coll[j]._id = out'[k]._id
                        => MayBeEmitted(releases_coll[j].author) ]_vars

\* a missing/null field counts as the empty string
OrEmpty(v) == IF IsNullish(v) THEN <<>> ELSE v

TitleAndBody(d) == OrEmpty(d.title) \o Sep \o OrEmpty(d.body)

\* the bodies of the comments of cs whose user may be emitted
AllowedBodies(cs) ==
    LET kept == SelectSeq(cs, LAMBDA c : MayBeEmitted(c.user))
    IN  [k \in 1..Len(kept) |-> OrEmpty(kept[k].body)]

RECURSIVE AllowedIssueCommentBodies(_, _)
AllowedIssueCommentBodies(issues, n) ==
    IF n = 0 THEN <<>>
    ELSE AllowedIssueCommentBodies(issues, n - 1)
             \o AllowedBodies(issues[n].comments_data)

\* the pieces of the corpus text of the stored pull request d
CorpusPieces(d) ==
    LET allowed == SelectSeq(d.issues, LAMBDA i : MayBeEmitted(i.author))
    IN  <<TitleAndBody(d)>>
            \o AllowedBodies(d.comments_data)
            \o [k \in 1..Len(allowed) |-> TitleAndBody(allowed[k])]
            \o AllowedIssueCommentBodies(d.issues, Len(d.issues))

\* pieces[1], ..., pieces[n] with one newline between neighbours
RECURSIVE JoinedByNewline(_, _)
JoinedByNewline(pieces, n) ==
    IF n = 1 THEN pieces[1]
    ELSE JoinedByNewline(pieces, n - 1) \o Newline \o pieces[n]

\* C10: extract_pr_corpus emits exactly one unit per stored pull request,
\* with its html_url and with the text made of its "title; body", the bodies
\* of its allowed comments, the "title; body" of its allowed related issues
\* and the bodies of the allowed related-issue comments, in this order,
\* joined by single newlines, null fields counting as empty strings.
C10_PrCorpus ==
    [][ Ran("extract_pr_corpus") =>
            /\ Len(out') = Len(prs_coll)
            /\ \A k \in 1..Len(prs_coll) :
                  /\ out'[k]._id = prs_coll[k]._id
                  /\ out'[k].html_url = prs_coll[k].html_url
                  /\ out'[k].text =
                        JoinedByNewline(CorpusPieces(prs_coll[k]),
                                        Len(CorpusPieces(prs_coll[k]))) ]_vars

\* the corpus of a pull request with a null title, a comment by "olgabot"
\* and an issue by "some-bot" that "alice" commented on: the issue is left
\* out, the comment on it is not
C10_Witness ==
    /\ last_op = "extract_pr_corpus"
    /\ Len(prs_coll) = 1
    /\ prs_coll[1].title = Null
    /\ prs_coll[1].body = <<"p">>
    /\ Len(prs_coll[1].comments_data) = 1
    /\ prs_coll[1].comments_data[1].user = olgabot
    /\ Len(prs_coll[1].issues) = 1
    /\ prs_coll[1].issues[1].author = some_bot
    /\ Len(prs_coll[1].issues[1].comments_data) = 1
    /\ prs_coll[1].issues[1].comments_data[1].user = alice
    /\ Len(out) = 1
    /\ out[1].text = <<";", " ", "p", "\n", "c", "\n", "c">>

(***************************************************************************)
(* The extraction entry points: extract_from_source_code.main and          *)
(* extract_from_pr.main.  A parser of KeywordExtractor returns a list of   *)
(* matches, of which the entry points use the length only, or raises.      *)
(***************************************************************************)
MaxRepos == 2     \* repositories of selected_repos
MaxMatches == 1   \* matches one parser call returns

selected_repos == 1..MaxRepos

\* A line written for the user, and (kind "save") a call of
\* save_matches_to_file with n records.
Line(kind, n, source, repo) ==
    [kind |-> kind, n |-> n, source |-> source, repo |-> repo]

\* utils/save_to_file.py:21-23: what the call prints
save_matches_to_file(n, source, repo) ==
    IF n = 0 THEN <<Line("no_records", 0, source, repo)>> ELSE <<>>

outside_entry ==
    <<norm_vars, mongo_vars, retry_vars, filter_vars, wsgi_vars, get_vars,
      fetch_vars, reaction_vars,
      save_vars>>

\* extract_from_source_code.py:26-56, one repository.  raise_at is the parser
\* call that raises: 1 parse_wiki, 2 parse_comments, 3 parse_docs, 0 none.
source_code_repo ==
    /\ ep_main = "source_code" /\ ep_pc = "loop" /\ ep_repo < MaxRepos
    /\ \E has_wiki \in BOOLEAN, raise_at \in 0..3,
          n_wiki \in 0..MaxMatches, n_comments \in 0..MaxMatches,
          n_docs \in 0..MaxMatches :
          LET repo == ep_repo + 1
              wiki == has_wiki /\ raise_at # 1
              comments == raise_at \notin {1, 2}
              docs == raise_at = 0
          IN  /\ raise_at = 1 => has_wiki
              /\ ep_printed' = ep_printed
                    \o <<Line("processing", 0, "", repo)>>
                    \o (IF wiki
                        THEN save_matches_to_file(n_wiki, "wiki", repo)
                             \o <<Line("found", n_wiki, "wiki", repo)>>
                        ELSE <<>>)
                    \o (IF comments
                        THEN <<Line("found", n_comments, "code_comment", repo)>>
                             \o save_matches_to_file(n_comments, "code_comment",
                                                     repo)
                        ELSE <<>>)
                    \o (IF docs
                        THEN <<Line("docs_path", 0, "docs", repo)>>
                             \o save_matches_to_file(n_docs, "docs", repo)
                        ELSE <<Line("error", 0, "", repo)>>)
              /\ ep_saved' = ep_saved
                    \o (IF wiki THEN <<Line("save", n_wiki, "wiki", repo)>>
                        ELSE <<>>)
                    \o (IF comments
                        THEN <<Line("save", n_comments, "code_comment", repo)>>
                        ELSE <<>>)
                    \o (IF docs THEN <<Line("save", n_docs, "docs", repo)>>
                        ELSE <<>>)
              /\ last_processed' = repo
              /\ ep_repo' = repo
    /\ UNCHANGED <<ep_main, ep_pc, outside_entry>>

\* extract_from_pr.py:14-20, one repository; nothing catches what
\* parse_pr_corpus raises
pr_repo ==
    /\ ep_main = "pr" /\ ep_pc = "loop" /\ ep_repo < MaxRepos
    /\ \E raises \in BOOLEAN, n \in 0..MaxMatches :
          LET repo == ep_repo + 1
          IN  /\ ep_printed' = ep_printed
                    \o <<Line("parsing", 0, "", repo)>>
                    \o (IF raises THEN <<>>
                        ELSE save_matches_to_file(n, "pr_corpus", repo))
              /\ ep_saved' = ep_saved
                    \o (IF raises THEN <<>>
                        ELSE <<Line("save", n, "pr_corpus", repo)>>)
              /\ ep_pc' = IF raises THEN "raised" ELSE "loop"
              /\ ep_repo' = repo
    /\ UNCHANGED <<ep_main, last_processed, outside_entry>>

\* extract_from_source_code.py:57 and extract_from_pr.py:27
main_end ==
    /\ ep_pc = "loop" /\ ep_repo = MaxRepos
    /\ ep_pc' = "done"
    /\ ep_printed' = IF ep_main = "pr"
                     THEN Append(ep_printed, Line("done", 0, "", 0))
                     ELSE ep_printed
    /\ UNCHANGED <<ep_main, ep_repo, ep_saved, last_processed, outside_entry>>

EntryInit ==
    /\ NormIdle /\ MongoIdle /\ RetryIdle /\ FilterIdle /\ WsgiIdle
    /\ GetIdle /\ FetchIdle /\ ReactionIdle /\ SaveIdle
    /\ ep_main \in {"source_code", "pr"} /\ ep_pc = "loop" /\ ep_repo = 0
    /\ ep_printed = <<>> /\ ep_saved = <<>> /\ last_processed = 0

SpecEntry == EntryInit /\ [][source_code_repo \/ pr_repo \/ main_end]_vars

\* C11: for every repository and every source handed to save_matches_to_file,
\* the run has told the user how many matches were found: a "Found n matches"
\* line for that source and repository, or, when there are none, the "No
\* records to save" line.
C11_MatchCountReported ==
    \A k \in 1..Len(ep_saved) :
        \E j \in 1..Len(ep_printed) :
            /\ ep_printed[j].kind \in {"found", "no_records"}
            /\ ep_printed[j].n = ep_saved[k].n
            /\ ep_printed[j].source = ep_saved[k].source
            /\ ep_printed[j].repo = ep_saved[k].repo

(***************************************************************************)
(* GithubDataFetcher._with_retry.  fn is the caller's: each call of it     *)
(* succeeds or raises one of the errors the handlers tell apart.  The      *)
(* sleeps of _respect_rate_limit and _sleep_backoff change no state.       *)
(***************************************************************************)
MaxRetries == 3   \* values of max_retries

FnOutcomes ==
    {"success", "rate_limit_403", "transient_5xx", "github_exception",
     "os_error"}

outside_retry ==
    <<norm_vars, mongo_vars, entry_vars, filter_vars, wsgi_vars, get_vars,
      fetch_vars, reaction_vars,
      save_vars>>

\* GithubDataFetcher.py:175-196, one pass of the loop
with_retry_attempt ==
    /\ wr_pc = "loop" /\ attempt <= max_retries
    /\ \E o \in FnOutcomes :
          /\ fn_outcomes' = Append(fn_outcomes, o)
          /\ wr_pc' =
                CASE o = "success" -> "returned"
                  [] o = "rate_limit_403" -> "loop"
                  [] o \in {"transient_5xx", "os_error"} ->
                        IF attempt = max_retries THEN "raised" ELSE "loop"
                  [] OTHER -> "raised"
          /\ wr_value' = IF o = "success" THEN "fn()" ELSE wr_value
    /\ attempt' = IF wr_pc' = "loop" THEN attempt + 1 ELSE attempt
    /\ UNCHANGED <<max_retries, outside_retry>>

\* range(max_retries + 1) is used up: the function body ends, which returns
\* None
with_retry_exhausted ==
    /\ wr_pc = "loop" /\ attempt = max_retries + 1
    /\ wr_pc' = "returned" /\ wr_value' = "None"
    /\ UNCHANGED <<max_retries, attempt, fn_outcomes, outside_retry>>

RetryInit ==
    /\ NormIdle /\ MongoIdle /\ EntryIdle /\ FilterIdle /\ WsgiIdle
    /\ GetIdle /\ FetchIdle /\ ReactionIdle /\ SaveIdle
    /\ max_retries \in 0..MaxRetries /\ attempt = 0 /\ fn_outcomes = <<>>
    /\ wr_pc = "loop" /\ wr_value = "None"

SpecRetry == RetryInit /\ [][with_retry_attempt \/ with_retry_exhausted]_vars

\* C12: fn is called at most max_retries + 1 times, and _with_retry returns
\* only the value of a call of fn that succeeded: it never returns without
\* fn having succeeded.
C12_ReturnsOnlyAfterSuccess ==
    /\ Len(fn_outcomes) <= max_retries + 1
    /\ wr_pc = "returned" =>
          /\ fn_outcomes # <<>>
          /\ fn_outcomes[Len(fn_outcomes)] = "success"
          /\ wr_value = "fn()"

(***************************************************************************)
(* filter_repositories of select_repos/repo_filter.py.  A candidate is the *)
(* dictionary of the search result; the helpers are the caller's: what a   *)
(* call of one returns is drawn when it is called and kept in              *)
(* helper_calls as <<helper, index of the candidate, value>> (for          *)
(* get_repo_sbom the value is the number of frameworks detected).          *)
(***************************************************************************)
MaxCandidates == 2   \* candidates handed to filter_repositories

\* s.lower()
LowerStr(s) == [k \in 1..Len(s) |-> Lower(s[k])]

\* sub in s
Contains(sub, s) ==
    \E k \in 0..(Len(s) - Len(sub)) :
        \A j \in 1..Len(sub) : s[k + j] = sub[j]

\* repo_filter.py:22-28, two of them
DEFAULT_WEB_FRAMEWORKS == {<<"f","l","a","s","k">>, <<"d","j","a","n","g","o">>}

\* repo_filter.py:112-114
ValidFullName(repo) ==
    /\ ~IsNullish(Field(repo, "full_name"))
    /\ repo.full_name # <<>>
    /\ Contains(<<"/">>, repo.full_name)

\* repo_filter.py:117-123
Excluded(repo) ==
    LET name_lower == LowerStr(repo.full_name)
        desc_lower == IF IsNullish(Field(repo, "description")) THEN <<>>
                      ELSE LowerStr(repo.description)
    IN  \/ Contains(<<"f","r","a","m","e","w","o","r","k">>, name_lower)
        \/ Contains(<<"l","i","b","r","a","r","y">>, name_lower)
        \/ Contains(<<"t","o","o","l","k","i","t">>, desc_lower)
        \/ Contains(<<"s","d","k">>, desc_lower)
        \/ Contains(<<"c","l","i">>, desc_lower)
        \/ Contains(<<"c","o","m","m","a","n","d","-","l","i","n","e">>, desc_lower)
        \/ Contains(<<"f","r","a","m","e","w","o","r","k">>, desc_lower)
        \/ Contains(<<"l","i","b","r","a","r","y">>, desc_lower)

\* sorted(found) of a set of strings
RECURSIVE SortedSet(_)
SortedSet(S) ==
    IF S = {} THEN <<>>
    ELSE LET least == CHOOSE x \in S : \A y \in S \ {x} : StrLess(x, y)
         IN  <<least>> \o SortedSet(S \ {least})

\* repo_filter.py:61-92 on what get_repo_sbom returned; a missing helper
\* and a helper that raises end as a status other than 200 does
detect_web_frameworks(sbom, frameworks) ==
    IF sbom.status # 200 THEN <<>>
    ELSE SortedSet({LowerStr(sbom.pkgs[k].name) : k \in
            {k \in 1..Len(sbom.pkgs) :
                /\ sbom.pkgs[k].name # <<>>
                /\ LowerStr(sbom.pkgs[k].eco) \in {<<"p","y","p","i">>, <<"p","y","t","h","o","n">>, <<"p","i","p">>, <<>>}
                /\ LowerStr(sbom.pkgs[k].name) \in frameworks}})

\* what the dependency-graph endpoint may answer for a repository
Sboms ==
    { [status |-> 404, pkgs |-> <<>>],
      [status |-> 200, pkgs |-> <<>>],
      [status |-> 200, pkgs |-> <<[eco |-> <<"p","y","p","i">>, name |-> <<"F","l","a","s","k">>]>>],
      [status |-> 200, pkgs |-> <<[eco |-> <<"n","p","m">>, name |-> <<"f","l","a","s","k">>]>>],
      [status |-> 200, pkgs |-> <<[eco |-> <<>>, name |-> <<>>],
                                  [eco |-> <<"p","i","p">>, name |-> <<"d","j","a","n","g","o">>]>>] }

\* the search results filter_repositories is handed
Candidates ==
    [full_name : {<<"a","/","b">>, <<"a","b">>, <<>>, Null, <<"a","/","L","i","b","r","a","r","y">>},
     description : {Null, <<"a"," ","C","L","I">>},
     stargazers_count : {0, 1}]

outside_filter ==
    <<norm_vars, mongo_vars, retry_vars, entry_vars, wsgi_vars, get_vars,
      fetch_vars, reaction_vars,
      save_vars>>

\* repo_filter.py:140-142
TooFewStars_or_as_many(repo, p) == repo.stargazers_count <= p.min_stars

TooFewStars(repo, p) == repo.stargazers_count < p.min_stars

\* repo_filter.py:111-167, one candidate.  A value is drawn only for a
\* helper call that is made.
filter_candidate ==
    /\ fr_pc = "loop" /\ fr_i < Len(candidates)
    /\ LET i == fr_i + 1
           repo == candidates[i]
       IN
       \E checked \in {ValidFullName(repo) /\ ~Excluded(repo)} :
       \E py_pct \in IF checked THEN 0..1 ELSE {0} :
       \E stars_ok \in {/\ checked
                        /\ ~(py_pct < params.min_python)
                        /\ ~TooFewStars(repo, params)} :
       \E contributors \in
             IF params.skip_contributors \/ ~stars_ok THEN {-1} ELSE 0..1 :
       \E contributors_ok \in
             {/\ stars_ok
              /\ \/ params.skip_contributors
                 \/ ~(contributors < params.min_contributors)} :
       \E commits_recent \in
             IF params.skip_activity \/ ~contributors_ok THEN {-1} ELSE 0..1 :
       \E commits_ok \in
             {/\ contributors_ok
              /\ \/ params.skip_activity
                 \/ ~(commits_recent < params.min_commits)} :
       \E sbom \in IF commits_ok /\ params.detect_webapps THEN Sboms
                   ELSE {[status |-> 404, pkgs |-> <<>>]} :
       \E frameworks_found \in
             {IF params.detect_webapps
              THEN detect_web_frameworks(sbom, params.frameworks)
              ELSE <<>>} :
          /\ helper_calls' = helper_calls
                \cup (IF checked
                      THEN {<<"compute_python_percentage", i, py_pct>>}
                      ELSE {})
                \cup (IF stars_ok /\ ~params.skip_contributors
                      THEN {<<"count_contributors", i, contributors>>}
                      ELSE {})
                \cup (IF contributors_ok /\ ~params.skip_activity
                      THEN {<<"count_recent_commits", i, commits_recent>>}
                      ELSE {})
                \cup (IF commits_ok /\ params.detect_webapps
                      THEN {<<"get_repo_sbom", i, Len(frameworks_found)>>}
                      ELSE {})
          /\ results' =
                IF /\ commits_ok
                   /\ ~(/\ params.detect_webapps
                        /\ params.require_web_frameworks
                        /\ frameworks_found = <<>>)
                THEN Append(results,
                            [repo |-> repo, python_pct |-> py_pct,
                             contributors |-> contributors,
                             commits_recent |-> commits_recent,
                             frameworks_found |-> frameworks_found])
                ELSE results
          /\ fr_i' = i
    /\ UNCHANGED <<candidates, params, fr_pc, outside_filter>>

\* repo_filter.py:169
filter_return ==
    /\ fr_pc = "loop" /\ fr_i = Len(candidates)
    /\ fr_pc' = "returned"
    /\ UNCHANGED <<candidates, params, fr_i, results, helper_calls,
                   outside_filter>>

FilterInit ==
    /\ NormIdle /\ MongoIdle /\ RetryIdle /\ EntryIdle /\ WsgiIdle
    /\ GetIdle /\ FetchIdle /\ ReactionIdle /\ SaveIdle
    /\ \E n \in 0..MaxCandidates : candidates \in [1..n -> Candidates]
    /\ \E skip_contributors \in BOOLEAN, skip_activity \in BOOLEAN,
          detect_webapps \in BOOLEAN, require_web_frameworks \in BOOLEAN :
          params = [min_python |-> 1, min_stars |-> 1,
                    min_contributors |-> 1, min_commits |-> 1,
                    skip_contributors |-> skip_contributors,
                    skip_activity |-> skip_activity,
                    detect_webapps |-> detect_webapps,
                    require_web_frameworks |-> require_web_frameworks,
                    frameworks |-> DEFAULT_WEB_FRAMEWORKS]
    /\ fr_i = 0 /\ results = <<>> /\ helper_calls = {} /\ fr_pc = "loop"

SpecFilter == FilterInit /\ [][filter_candidate \/ filter_return]_vars

\* candidate i has a valid owner/name, is not excluded by the name and
\* description rule, and meets every threshold that was asked of it
C13_Passes(i) ==
    /\ ValidFullName(candidates[i]) /\ ~Excluded(candidates[i])
    /\ candidates[i].stargazers_count >= params.min_stars
    /\ \A h \in helper_calls :
          h[2] = i =>
             /\ h[1] = "compute_python_percentage" => h[3] >= params.min_python
             /\ h[1] = "count_contributors" => h[3] >= params.min_contributors
             /\ h[1] = "count_recent_commits" => h[3] >= params.min_commits
             /\ (h[1] = "get_repo_sbom" /\ params.require_web_frameworks)
                   => h[3] > 0

\* C13: the list filter_repositories returns is a subsequence of the
\* candidates, in their order, carrying what the helpers answered; each of its
\* tuples meets the thresholds of python_pct, stars, contributors and recent
\* commits (-1, and the helper never called, where the check is skipped) and
\* has a framework when detection is on and required; and every candidate
\* that passes all of this is in the list.
C13_FilterRepositories ==
    fr_pc = "returned" =>
       /\ \E f \in [1..Len(results) -> 1..Len(candidates)] :
             /\ \A k \in 1..(Len(results) - 1) : f[k] < f[k + 1]
             /\ \A k \in 1..Len(results) :
                   /\ results[k].repo = candidates[f[k]]
                   /\ <<"compute_python_percentage", f[k],
                        results[k].python_pct>> \in helper_calls
       /\ \A k \in 1..Len(results) :
             /\ results[k].python_pct >= params.min_python
             /\ results[k].repo.stargazers_count >= params.min_stars
             /\ IF params.skip_contributors
                THEN results[k].contributors = -1
                ELSE results[k].contributors >= params.min_contributors
             /\ IF params.skip_activity
                THEN results[k].commits_recent = -1
                ELSE results[k].commits_recent >= params.min_commits
             /\ (params.detect_webapps /\ params.require_web_frameworks)
                   => results[k].frameworks_found # <<>>
       /\ params.skip_contributors =>
             \A h \in helper_calls : h[1] # "count_contributors"
       /\ params.skip_activity =>
             \A h \in helper_calls : h[1] # "count_recent_commits"
       /\ \A i \in 1..Len(candidates) :
             C13_Passes(i) =>
                \E k \in 1..Len(results) : results[k].repo = candidates[i]

\* two candidates, of which the second alone is kept, with a framework that
\* was required and the contributor check skipped
C13_Witness ==
    /\ fr_pc = "returned"
    /\ Len(candidates) = 2 /\ Len(results) = 1
    /\ results[1].repo = candidates[2] /\ candidates[1] # candidates[2]
    /\ C13_Passes(2) /\ ~C13_Passes(1)
    /\ params.require_web_frameworks /\ results[1].frameworks_found # <<>>
    /\ results[1].contributors = -1 /\ results[1].commits_recent = 1

(***************************************************************************)
(* EnergyWSGIWrapper of paperless-testexperiment/wrapper.py, one request.  *)
(* w_events holds, in order: "start" (meter.start), "app" (the inner       *)
(* application is called), "warn_devices" (the warning that no RAPL device *)
(* could be created), "chunk" (a chunk is yielded), "stop" (meter.stop),   *)
(* "save" (the trace is saved), "close_inner" (inner_iterable.close).      *)
(***************************************************************************)
MaxChunks == 2   \* chunks of the inner application's iterable

PathInfos == {<<>>, <<"/">>, <<"/","s","t","a","t","i","c">>, <<"/","s","t","a","t","i","c","/","a">>, <<"/","a","/","s","t","a","t","i","c","/">>}

\* s.startswith(prefix), as a mistaken `prefix in s`
startswith_anywhere(s, prefix) == Contains(prefix, s)

\* s.startswith(prefix)
startswith(s, prefix) ==
    /\ Len(prefix) <= Len(s)
    /\ \A k \in 1..Len(prefix) : s[k] = prefix[k]

outside_wsgi ==
    <<norm_vars, mongo_vars, retry_vars, entry_vars, filter_vars, get_vars,
      fetch_vars, reaction_vars,
      save_vars>>

\* wrapper.py:60-67, the finally clause of _gen: what it gets done when
\* meter.stop ("stop") or get_trace/save_data ("save") raises, or nothing does
stop_and_save(raises) ==
    CASE raises = "stop" -> <<>>
      [] raises = "save" -> <<"stop">>
      [] OTHER -> <<"stop", "save">>

\* wrapper.py:28-75, EnergyWSGIWrapper.__call__
call ==
    /\ w_pc = "request"
    /\ \/ /\ ~pyjoules_ok \/ ~startswith(path_info, <<"/","s","t","a","t","i","c","/">>)
          /\ w_events' = <<"app">>
          /\ w_pc' = "passed"
       \/ /\ pyjoules_ok /\ startswith(path_info, <<"/","s","t","a","t","i","c","/">>)
          /\ \/ /\ w_events' = <<"warn_devices", "app">>
                /\ w_pc' = "passed"
             \/ /\ w_events' = <<"start", "app">>
                /\ w_pc' = "iterating"
    /\ UNCHANGED <<pyjoules_ok, path_info, inner_len, w_yielded, outside_wsgi>>

\* wrapper.py:56-67, _gen is asked for the next chunk: the inner iterable
\* hands one over, raises, or is exhausted
gen_next ==
    /\ w_pc = "iterating"
    /\ \/ /\ w_yielded < inner_len
          /\ w_events' = Append(w_events, "chunk")
          /\ w_yielded' = w_yielded + 1
          /\ w_pc' = "iterating"
       \/ /\ \E raises \in {"none", "stop", "save"} :
                w_events' = w_events \o stop_and_save(raises)
          /\ w_pc' = "finished"
          /\ UNCHANGED w_yielded
    /\ UNCHANGED <<pyjoules_ok, path_info, inner_len, outside_wsgi>>

\* wrapper.py:59-67, _gen is closed, or collected, where it waits at its
\* yield: GeneratorExit runs the finally clause
gen_close ==
    /\ w_pc = "iterating" /\ w_yielded > 0
    /\ \E raises \in {"none", "stop", "save"} :
          w_events' = w_events \o stop_and_save(raises)
    /\ w_pc' = "finished"
    /\ UNCHANGED <<pyjoules_ok, path_info, inner_len, w_yielded, outside_wsgi>>

\* wrapper.py:71-73, _WrappedIterable.close
close ==
    /\ w_pc \in {"iterating", "finished"}
    /\ \A k \in 1..Len(w_events) : w_events[k] # "close_inner"
    /\ w_events' = Append(w_events, "close_inner")
    /\ UNCHANGED <<pyjoules_ok, path_info, inner_len, w_pc, w_yielded,
                   outside_wsgi>>

WsgiInit ==
    /\ NormIdle /\ MongoIdle /\ RetryIdle /\ EntryIdle /\ FilterIdle
    /\ GetIdle /\ FetchIdle /\ ReactionIdle /\ SaveIdle
    /\ pyjoules_ok \in BOOLEAN /\ path_info \in PathInfos
    /\ inner_len \in 0..MaxChunks
    /\ w_pc = "request" /\ w_events = <<>> /\ w_yielded = 0

SpecWsgi == WsgiInit /\ [][call \/ gen_next \/ gen_close \/ close]_vars

\* the positions of event e in w_events
C14_At(e) == {k \in 1..Len(w_events) : w_events[k] = e}

\* PATH_INFO starts with "/static/"
C14_Static == Len(path_info) >= 8 /\ SubSeq(path_info, 1, 8) = <<"/","s","t","a","t","i","c","/">>

MaxResponses == 3   \* requests of one call

Responses ==
    [status : {200, 304, 400, 403, 404, 500},
     remaining : {"0", "1", "absent"},
     secondary : BOOLEAN]

\* extract_repos_from_git.py:87, without its allow_404
Tolerated_any_404(r, allow) == r.status = 404

\* extract_repos_from_git.py:87
Tolerated(r, allow) == allow /\ r.status = 404

outside_get ==
    <<norm_vars, mongo_vars, retry_vars, entry_vars, filter_vars, wsgi_vars,
      fetch_vars, reaction_vars,
      save_vars>>

\* extract_repos_from_git.py:58-93, one pass of the loop
github_get_request ==
    /\ gg_pc = "loop" /\ Len(gg_responses) < MaxResponses
    /\ \E r \in Responses :
          /\ gg_responses' = Append(gg_responses, r)
          /\ IF r.status = 403
             THEN IF r.remaining = "0"
                  THEN /\ gg_slept' = Append(gg_slept,
                              [limit |-> "core", backoff |-> backoff])
                       /\ UNCHANGED <<backoff, gg_pc>>
                  ELSE IF r.secondary
                  THEN /\ gg_slept' = Append(gg_slept,
                              [limit |-> "secondary", backoff |-> backoff])
                       /\ backoff' = IF backoff * 2 < 60 THEN backoff * 2
                                     ELSE 60
                       /\ UNCHANGED gg_pc
                  ELSE /\ gg_pc' = "raised"
                       /\ UNCHANGED <<gg_slept, backoff>>
             ELSE /\ gg_pc' = IF Tolerated(r, allow_404) THEN "returned"
                              ELSE IF r.status >= 400 THEN "raised"
                              ELSE "returned"
                  /\ UNCHANGED <<gg_slept, backoff>>
    /\ UNCHANGED <<allow_404, outside_get>>

GetInit ==
    /\ NormIdle /\ MongoIdle /\ RetryIdle /\ EntryIdle /\ FilterIdle
    /\ WsgiIdle /\ FetchIdle /\ ReactionIdle /\ SaveIdle
    /\ allow_404 \in BOOLEAN /\ gg_responses = <<>> /\ gg_slept = <<>>
    /\ backoff = 2 /\ gg_pc = "loop"

SpecGet == GetInit /\ [][github_get_request]_vars

\* a 403 of the primary or of the secondary rate limit
C15_RateLimited(r) ==
    r.status = 403 /\ (r.remaining = "0" \/ r.secondary)

\* C15: github_get returns a response only if its status is below 400, or is
\* 404 with allow_404 set; a rate-limit 403 never ends the call, each one is
\* slept on and the request made again; every other response of status 400
\* or more makes the call raise.
C15_GithubGet ==
    LET n == Len(gg_responses)
    IN  /\ gg_pc = "returned" =>
              \/ gg_responses[n].status < 400
              \/ gg_responses[n].status = 404 /\ allow_404
        /\ \A k \in 1..n :
              C15_RateLimited(gg_responses[k]) => (k < n \/ gg_pc = "loop")
        /\ Len(gg_slept) =
              Cardinality({k \in 1..n : C15_RateLimited(gg_responses[k])})
        /\ \A k \in 1..n :
              (/\ ~C15_RateLimited(gg_responses[k])
               /\ gg_responses[k].status >= 400
               /\ ~(gg_responses[k].status = 404 /\ allow_404))
                 => (k = n /\ gg_pc = "raised")

\* two rate-limit answers, one of each kind, then a 404 that is returned
C15_Witness ==
    /\ gg_pc = "returned" /\ allow_404 /\ Len(gg_responses) = 3
    /\ gg_responses[1].status = 403 /\ gg_responses[1].remaining = "0"
    /\ gg_responses[2].status = 403 /\ gg_responses[2].remaining = "1"
    /\ gg_responses[2].secondary
    /\ gg_responses[3].status = 404
    /\ Len(gg_slept) = 2

(***************************************************************************)
(* The batching generators of GithubDataFetcher: get_issues, get_prs and   *)
(* get_releases.  A time is a number from 1 on and None is 0; an item of   *)
(* the paginated list is its number (a release: its id), its updated_at    *)
(* (get_issues: created_at) and whether it has a pull_request; a DTO keeps *)
(* the three.  The shelf db lives on from one call to the next.            *)
(***************************************************************************)
MaxItems == 3    \* items the paginated list hands over in one call
MaxBatch == 2    \* values of batch_size
MaxNumber == 2   \* issue and pull request numbers
MaxTs == 2       \* times

Items == [number : 1..MaxNumber, ts : 1..MaxTs, pull_request : BOOLEAN]

outside_fetch ==
    <<norm_vars, mongo_vars, retry_vars, entry_vars, filter_vars, wsgi_vars,
      get_vars, reaction_vars,
      save_vars>>

\* GithubDataFetcher.py:218-231, 257-284 and 516-524: the generator is made
\* and asked for its first batch
call_generator ==
    /\ f_pc \in {"idle", "done", "assert", "raised"}
    /\ f_op' \in {"get_issues", "get_prs", "get_releases"}
    /\ batch_size' \in 0..MaxBatch
    /\ known_pr_numbers' \in
          IF f_op' = "get_prs" THEN SUBSET (1..MaxNumber) ELSE {{}}
    /\ f_pc' = IF batch_size' > 0 THEN "loop" ELSE "assert"
    /\ boundary_ts' = db.boundary_ts
    /\ boundary_num' = db.boundary_num
    /\ max_ts' = db.boundary_ts
    /\ max_num' = db.boundary_num
    /\ seen_numbers' = db.seen_numbers
    /\ batch' = <<>> /\ yielded' = <<>> /\ mapped' = <<>>
    /\ fetched' = {} /\ consumed' = 0 /\ last_created_at' = 0
    /\ UNCHANGED <<db, outside_fetch>>

\* GithubDataFetcher.py:236, 315 and 530, off by one
Full_and_one_more(b) == Len(b) = batch_size + 1

\* GithubDataFetcher.py:236, 315 and 530
Full(b) == Len(b) = batch_size

\* GithubDataFetcher.py:296, with the known numbers only
AlreadyHave_known_only(num) == num \in known_pr_numbers

\* GithubDataFetcher.py:296
AlreadyHave(num) == num \in known_pr_numbers \/ num \in seen_numbers

\* GithubDataFetcher.py:312, with the times only
Advances_by_time(it) == max_ts = 0 \/ it.ts > max_ts

\* GithubDataFetcher.py:312
Advances(it) ==
    \/ max_ts = 0
    \/ it.ts > max_ts
    \/ it.ts = max_ts /\ it.number > max_num

\* GithubDataFetcher.py:287-334, one item of the Issues API, which hands over
\* what was updated at or after since=boundary_ts.  mapped_ok is whether
\* _with_retry(get_pull) and _map_pr_to_dto end without an exception.
get_prs_item ==
    /\ f_op = "get_prs" /\ f_pc = "loop" /\ consumed < MaxItems
    /\ consumed' = consumed + 1
    /\ \E it \in Items, mapped_ok \in BOOLEAN :
          /\ boundary_ts = 0 \/ it.ts >= boundary_ts
          /\ IF \/ ~it.pull_request
                \/ AlreadyHave(it.number)
                \/ /\ boundary_ts # 0 /\ it.ts = boundary_ts
                   /\ it.number <= boundary_num
             THEN /\ mapped_ok
                  /\ UNCHANGED <<f_pc, max_ts, max_num, seen_numbers, batch,
                                 yielded, mapped, fetched>>
             ELSE /\ fetched' = fetched \cup {it.number}
                  /\ IF mapped_ok
                     THEN /\ batch' = Append(batch, it)
                          /\ mapped' = Append(mapped, it)
                          /\ seen_numbers' = seen_numbers \cup {it.number}
                          /\ max_ts' = IF Advances(it) THEN it.ts ELSE max_ts
                          /\ max_num' = IF Advances(it) THEN it.number
                                        ELSE max_num
                          /\ IF Full(batch')
                             THEN /\ yielded' = Append(yielded, batch')
                                  /\ f_pc' = "yielded"
                             ELSE UNCHANGED <<yielded, f_pc>>
                     ELSE UNCHANGED <<f_pc, max_ts, max_num, seen_numbers,
                                      batch, yielded, mapped>>
    /\ UNCHANGED <<f_op, batch_size, known_pr_numbers, db, boundary_ts,
                   boundary_num, last_created_at, outside_fetch>>

\* GithubDataFetcher.py:317-323 and 339-341: the consumer asks for the next
\* batch, and the progress is persisted
get_prs_resume ==
    /\ f_op = "get_prs" /\ f_pc \in {"yielded", "flushed"}
    /\ db' = [db EXCEPT !.boundary_ts = max_ts, !.boundary_num = max_num,
                        !.seen_numbers = seen_numbers]
    /\ batch' = IF f_pc = "yielded" THEN <<>> ELSE batch
    /\ f_pc' = IF f_pc = "yielded" THEN "loop" ELSE "done"
    /\ UNCHANGED <<f_op, batch_size, known_pr_numbers, boundary_ts,
                   boundary_num, max_ts, max_num, seen_numbers, yielded,
                   mapped, fetched, consumed, last_created_at, outside_fetch>>

\* GithubDataFetcher.py:336-338: the list is used up
get_prs_end ==
    /\ f_op = "get_prs" /\ f_pc = "loop"
    /\ IF batch # <<>>
       THEN yielded' = Append(yielded, batch) /\ f_pc' = "flushed"
       ELSE UNCHANGED yielded /\ f_pc' = "done"
    /\ UNCHANGED <<f_op, batch_size, known_pr_numbers, db, boundary_ts,
                   boundary_num, max_ts, max_num, seen_numbers, batch, mapped,
                   fetched, consumed, last_created_at, outside_fetch>>

\* GithubDataFetcher.py:232-250, one issue.  mapped_ok is whether
\* _map_issue_to_dto ends without an exception.
get_issues_item ==
    /\ f_op = "get_issues" /\ f_pc = "loop" /\ consumed < MaxItems
    /\ consumed' = consumed + 1
    /\ \E issue \in Items, mapped_ok \in BOOLEAN :
          /\ last_created_at' = issue.ts
          /\ IF mapped_ok
             THEN /\ batch' = Append(batch, issue)
                  /\ mapped' = Append(mapped, issue)
                  /\ IF Full(batch')
                     THEN /\ yielded' = Append(yielded, batch')
                          /\ f_pc' = "yielded"
                     ELSE UNCHANGED <<yielded, f_pc>>
             ELSE UNCHANGED <<batch, mapped, yielded, f_pc>>
    /\ UNCHANGED <<f_op, batch_size, known_pr_numbers, db, boundary_ts,
                   boundary_num, max_ts, max_num, seen_numbers, fetched,
                   outside_fetch>>

\* GithubDataFetcher.py:238-241
get_issues_resume ==
    /\ f_op = "get_issues" /\ f_pc = "yielded"
    /\ db' = [db EXCEPT !.since = last_created_at]
    /\ batch' = <<>>
    /\ f_pc' = "loop"
    /\ UNCHANGED <<f_op, batch_size, known_pr_numbers, boundary_ts,
                   boundary_num, max_ts, max_num, seen_numbers, yielded,
                   mapped, fetched, consumed, last_created_at, outside_fetch>>

\* GithubDataFetcher.py:252-253
get_issues_end ==
    /\ f_op = "get_issues" /\ f_pc = "loop"
    /\ yielded' = IF Len(batch) > 0 THEN Append(yielded, batch) ELSE yielded
    /\ f_pc' = "done"
    /\ UNCHANGED <<f_op, batch_size, known_pr_numbers, db, boundary_ts,
                   boundary_num, max_ts, max_num, seen_numbers, batch, mapped,
                   fetched, consumed, last_created_at, outside_fetch>>

\* GithubDataFetcher.py:526-540, one release.  mapped_ok is whether the
\* ReleaseDTO is built without an exception.
get_releases_item ==
    /\ f_op = "get_releases" /\ f_pc = "loop" /\ consumed < MaxItems
    /\ consumed' = consumed + 1
    /\ \E release \in Items, mapped_ok \in BOOLEAN :
          IF mapped_ok
          THEN /\ batch' = Append(batch, release)
               /\ mapped' = Append(mapped, release)
               /\ IF Full(batch')
                  THEN /\ yielded' = Append(yielded, batch')
                       /\ f_pc' = "yielded"
                  ELSE UNCHANGED <<yielded, f_pc>>
          ELSE UNCHANGED <<batch, mapped, yielded, f_pc>>
    /\ UNCHANGED <<f_op, batch_size, known_pr_numbers, db, boundary_ts,
                   boundary_num, max_ts, max_num, seen_numbers, fetched,
                   last_created_at, outside_fetch>>

\* GithubDataFetcher.py:536
get_releases_resume ==
    /\ f_op = "get_releases" /\ f_pc = "yielded"
    /\ batch' = <<>>
    /\ f_pc' = "loop"
    /\ UNCHANGED <<f_op, batch_size, known_pr_numbers, db, boundary_ts,
                   boundary_num, max_ts, max_num, seen_numbers, yielded,
                   mapped, fetched, consumed, last_created_at, outside_fetch>>

\* GithubDataFetcher.py:542-543
get_releases_end ==
    /\ f_op = "get_releases" /\ f_pc = "loop"
    /\ yielded' = IF Len(batch) > 0 THEN Append(yielded, batch) ELSE yielded
    /\ f_pc' = "done"
    /\ UNCHANGED <<f_op, batch_size, known_pr_numbers, db, boundary_ts,
                   boundary_num, max_ts, max_num, seen_numbers, batch, mapped,
                   fetched, consumed, last_created_at, outside_fetch>>

\* GithubDataFetcher.py:199-200, 232, 287 and 526: the paginated list raises
\* while the next page is fetched; the for statements are outside every try,
\* so the generator ends with the exception
paginated_list_raises ==
    /\ f_pc = "loop" /\ consumed < MaxItems
    /\ f_pc' = "raised"
    /\ UNCHANGED <<f_op, batch_size, known_pr_numbers, db, boundary_ts,
                   boundary_num, max_ts, max_num, seen_numbers, batch, yielded,
                   mapped, fetched, consumed, last_created_at, outside_fetch>>

FetchInit ==
    /\ NormIdle /\ MongoIdle /\ RetryIdle /\ EntryIdle /\ FilterIdle
    /\ WsgiIdle /\ GetIdle /\ ReactionIdle /\ SaveIdle
    /\ f_op = "none" /\ f_pc = "idle" /\ batch_size = 1
    /\ known_pr_numbers = {}
    /\ db = [since |-> 0, boundary_ts |-> 0, boundary_num |-> 0,
             seen_numbers |-> {}]
    /\ boundary_ts = 0 /\ boundary_num = 0 /\ max_ts = 0 /\ max_num = 0
    /\ seen_numbers = {} /\ batch = <<>> /\ yielded = <<>> /\ mapped = <<>>
    /\ fetched = {} /\ consumed = 0 /\ last_created_at = 0

SpecFetch ==
    FetchInit /\
    [][\/ call_generator \/ paginated_list_raises
       \/ get_issues_item \/ get_issues_resume \/ get_issues_end
       \/ get_prs_item \/ get_prs_resume \/ get_prs_end
       \/ get_releases_item \/ get_releases_resume \/ get_releases_end]_vars

\* the batches one after the other
RECURSIVE C16_Concatenation(_)
C16_Concatenation(bs) ==
    IF bs = <<>> THEN <<>> ELSE Head(bs) \o C16_Concatenation(Tail(bs))

\* C16: in a run of get_prs no pull request number is yielded twice, every
\* item yielded is a pull request that this run fetched, and no number of
\* known_pr_numbers or of the seen numbers (those persisted by earlier runs,
\* and those of this run) is fetched.
C16_NoRepeatedOrKnownPr ==
    [][f_op' = "get_prs" =>
          LET ys == C16_Concatenation(yielded')
          IN  /\ \A i \in 1..Len(ys) : \A j \in 1..Len(ys) :
                    i # j => ys[i].number # ys[j].number
              /\ \A i \in 1..Len(ys) :
                    /\ ys[i].pull_request
                    /\ ys[i].number \in fetched'
                    /\ ys[i].number \notin known_pr_numbers'
              /\ \A n \in fetched' \ fetched :
                    /\ n \notin known_pr_numbers
                    /\ n \notin seen_numbers
                    /\ n \notin db.seen_numbers]_vars

\* a later run that fetched and yielded pull request 2 alone, with 1 known
\* and the list used up to its third item
C16_Witness ==
    /\ f_op = "get_prs" /\ f_pc = "done" /\ consumed = 3
    /\ known_pr_numbers = {1} /\ fetched = {2}
    /\ Len(yielded) = 1 /\ Len(mapped) = 1 /\ mapped[1].number = 2
    /\ db.since # 0

C17_LexLeq(a, b) == a[1] < b[1] \/ (a[1] = b[1] /\ a[2] <= b[2])

\* the boundary loaded at the start and the (updated_at, number) of every
\* pull request appended to a batch so far
C17_Pairs ==
    {<<boundary_ts, boundary_num>>} \cup
    {<<mapped[k].ts, mapped[k].number>> : k \in 1..Len(mapped)}

\* C17: each time get_prs persists its progress, the boundary it stores is
\* the lexicographic maximum of the loaded boundary and the (updated_at,
\* number) of every pull request appended so far, the stored seen numbers
\* hold the ones stored before, and the boundary does not decrease.
C17_BoundaryIsLexMax ==
    [][(/\ f_op = "get_prs" /\ f_pc \in {"yielded", "flushed"}
        /\ f_pc' \in {"loop", "done"}) =>
          /\ <<db'.boundary_ts, db'.boundary_num>> \in C17_Pairs
          /\ \A p \in C17_Pairs :
                C17_LexLeq(p, <<db'.boundary_ts, db'.boundary_num>>)
          /\ db.seen_numbers \subseteq db'.seen_numbers
          /\ C17_LexLeq(<<db.boundary_ts, db.boundary_num>>,
                        <<db'.boundary_ts, db'.boundary_num>>)]_vars

\* two persists, the second of a pull request updated before the first: the
\* stored boundary is that of the first
C17_Witness ==
    /\ f_op = "get_prs" /\ f_pc = "done" /\ Len(yielded) = 2
    /\ Len(mapped) = 2 /\ mapped[1].ts = 2 /\ mapped[2].ts = 1
    /\ db.boundary_ts = 2 /\ db.boundary_num = mapped[1].number
    /\ db.seen_numbers = {1, 2}

MaxAdds == 3    \* calls of add on one ReactionDTO

\* GithubDataFetcher.py:30-37, the dataclass fields
Counters ==
    {"thumbs_up", "thumbs_down", "laugh", "confused", "heart", "hooray",
     "rocket", "eyes"}

\* GithubDataFetcher.py:28-51, the names in ReactionDTO.__dict__: the fields
\* with their defaults, the class variable, the methods, and what the class
\* statement and @dataclass put there
ClassDictKeys ==
    Counters \cup
    {"_name_map", "_get_key", "is_reaction_key", "add", "__module__",
     "__annotations__", "__dict__", "__weakref__", "__doc__",
     "__dataclass_params__", "__dataclass_fields__", "__init__", "__repr__",
     "__eq__", "__hash__", "__match_args__"}

\* GithubDataFetcher.py:39
_name_map == [k \in {"+1", "-1"} |->
                 IF k = "+1" THEN "thumbs_up" ELSE "thumbs_down"]

\* GithubDataFetcher.py:41-42
_get_key(key) == IF key \in DOMAIN _name_map THEN _name_map[key] ELSE key

\* GithubDataFetcher.py:44-46
is_reaction_key(key) == key \in ClassDictKeys \cup {"+1", "-1"}

\* GithubDataFetcher.py:48-51.  The attribute of a name that is no field is
\* a mapping, a function, a string, a tuple or None: adding 1 to it raises
\* TypeError before anything is set.
add ==
    /\ adds < MaxAdds
    /\ \E reaction \in ClassDictKeys \cup {"+1", "-1", "x", "THUMBS_UP", ""} :
          /\ last_reaction' = reaction
          /\ IF is_reaction_key(reaction)
             THEN \E key \in {_get_key(reaction)} :
                     IF key \in Counters
                     THEN /\ reaction_counts' =
                                [reaction_counts EXCEPT ![key] = @ + 1]
                          /\ add_raised' = FALSE
                     ELSE /\ add_raised' = TRUE
                          /\ UNCHANGED reaction_counts
             ELSE /\ add_raised' = FALSE
                  /\ UNCHANGED reaction_counts
    /\ adds' = adds + 1
    /\ UNCHANGED <<norm_vars, mongo_vars, retry_vars, entry_vars,
                   filter_vars, wsgi_vars, get_vars, fetch_vars,
                   save_vars>>

\* GithubDataFetcher.py:30-37 and 505: a new ReactionDTO
ReactionInit ==
    /\ NormIdle /\ MongoIdle /\ RetryIdle /\ EntryIdle /\ FilterIdle
    /\ WsgiIdle /\ GetIdle /\ FetchIdle /\ SaveIdle
    /\ reaction_counts = [c \in Counters |-> 0]
    /\ last_reaction = "" /\ add_raised = FALSE /\ adds = 0

SpecReaction == ReactionInit /\ [][add]_vars

C19_Counter(r) ==
    CASE r = "+1" -> "thumbs_up" [] r = "-1" -> "thumbs_down" [] OTHER -> r

\* C19: add with a counter name, "+1" or "-1" increases that counter by one
\* and leaves the other seven; add with any other string leaves all eight
\* and raises no error.
C19_AddCountsOrIgnores ==
    [][adds' = adds + 1 =>
          /\ ~add_raised'
          /\ reaction_counts' =
                IF last_reaction' \in Counters \cup {"+1", "-1"}
                THEN [reaction_counts EXCEPT
                         ![C19_Counter(last_reaction')] = @ + 1]
                ELSE reaction_counts]_vars

\* the part of C19 that holds: the counters are as the claim says after
\* every add, whether or not it raised
C19_CountersAsClaimed ==
    [][adds' = adds + 1 =>
          reaction_counts' =
             IF last_reaction' \in Counters \cup {"+1", "-1"}
             THEN [reaction_counts EXCEPT
                      ![C19_Counter(last_reaction')] = @ + 1]
             ELSE reaction_counts]_vars

(***************************************************************************)
(* The pattern normalizer again: the order of the input list               *)
(***************************************************************************)
C20_Permutations(n) ==
    {p \in [1..n -> 1..n] : \A i \in 1..n : \A j \in 1..n :
                               i # j => p[i] # p[j]}

\* the taxonomy t with the keywords of its attribute i listed in the order p
C20_Relisted(t, i, p) ==
    [t EXCEPT ![i].keywords = [j \in 1..Len(t[i].keywords) |->
                                  t[i].keywords[p[j]]]]

\* C20: the list returned for an attribute is the same for every order in
\* which its patterns are listed.
C20_OrderOfInputIrrelevant ==
    pc_norm = "done" =>
        \A i \in 1..Len(qas) :
            \A p \in C20_Permutations(Len(qas[i].keywords)) :
                transform_quality_attributes(
                    C20_Relisted(qas, i, p), keep_regex_notation)[i].keywords
                  = patterns[i].keywords

\* how often x is in the list xs
C21_Count(xs, x) == Cardinality({j \in 1..Len(xs) : xs[j] = x})

C21_IsPermutation(xs, ys) ==
    /\ Len(xs) = Len(ys)
    /\ \A j \in 1..Len(xs) : C21_Count(xs, xs[j]) = C21_Count(ys, xs[j])

\* C21: the mapping returned has the attribute names of the input in the
\* order of the input, and with keep_regex_notation=True the list of each
\* attribute is a permutation of its input list, duplicates included.
C21_SameNamesSamePatterns ==
    pc_norm = "done" =>
        /\ Len(patterns) = Len(qas)
        /\ \A i \in 1..Len(qas) :
              /\ patterns[i].qa = qas[i].qa
              /\ keep_regex_notation =>
                    C21_IsPermutation(qas[i].keywords, patterns[i].keywords)

\* two attributes, the first listing one pattern with regex notation twice
C21_Witness ==
    /\ pc_norm = "done" /\ keep_regex_notation /\ Len(qas) = 2
    /\ Len(qas[1].keywords) = 2
    /\ qas[1].keywords[1] = qas[1].keywords[2]
    /\ HasRegexNotation(qas[1].keywords[1])
    /\ patterns[1].keywords = qas[1].keywords

(***************************************************************************)
(* The corpus adapters again: the type of text                             *)
(***************************************************************************)
\* C22: every unit an adapter returns has a string for its text, empty
\* perhaps, never null or missing, also when the stored title or body is
\* null.
C22_TextIsAString ==
    [][\A op \in {"extract_issues", "extract_comments", "extract_releases",
                  "extract_prs", "extract_pr_comments",
                  "extract_pr_related_issues",
                  "extract_pr_related_issue_comments", "extract_pr_corpus"} :
          Ran(op) => \A k \in 1..Len(out') :
                        /\ "text" \in DOMAIN out'[k]
                        /\ out'[k].text # Null
                        /\ out'[k].text # Missing]_vars

\* the adapter for which C22 holds: the text of the unified corpus of a
\* pull request
C22_PrCorpusTextIsAString ==
    [][Ran("extract_pr_corpus") =>
          \A k \in 1..Len(out') :
              out'[k].text # Null /\ out'[k].text # Missing]_vars

(***************************************************************************)
(* save_matches_to_file of utils/save_to_file.py and the result files.     *)
(* A path is <<directory under the base directory, repository, source>>;   *)
(* a row is <<record, keep_text>>, the record.as_dict(keep_text=...) of    *)
(* the record.                                                             *)
(***************************************************************************)
MaxSaves == 3    \* calls of save_matches_to_file

\* model/MatchSource.py, the sources the entry points save
MatchSources == {"wiki", "docs", "code_comment", "pr_corpus"}

\* utils/save_to_file.py:13-18
resulting_filename(repo, source, with_matched_text) ==
    <<IF with_matched_text THEN "full" ELSE "", repo, source>>

\* utils/save_to_file.py:12-27.  os.makedirs only makes the directory;
\* to_parquet replaces the file at the path.
save_matches_to_file_call ==
    /\ Len(sv_calls) < MaxSaves
    /\ \E records \in SeqsUpTo({"m1", "m2"}, MaxMatches),
          source \in MatchSources, repo \in selected_repos,
          with_matched_text \in BOOLEAN :
          /\ sv_calls' = Append(sv_calls,
                 [records |-> records, source |-> source, repo |-> repo,
                  with_matched_text |-> with_matched_text])
          /\ sv_printed' = sv_printed
                 \o save_matches_to_file(Len(records), source, repo)
          /\ IF Len(records) = 0
             THEN UNCHANGED files
             ELSE \E path \in {resulting_filename(repo, source,
                                                  with_matched_text)} :
                     files' =
                        [f \in DOMAIN files \cup {path} |->
                            IF f = path
                            THEN [k \in 1..Len(records) |->
                                     <<records[k], with_matched_text>>]
                            ELSE files[f]]
    /\ UNCHANGED <<norm_vars, mongo_vars, retry_vars, entry_vars,
                   filter_vars, wsgi_vars, get_vars, fetch_vars,
                   reaction_vars>>

\* no result file yet
SaveInit ==
    /\ NormIdle /\ MongoIdle /\ RetryIdle /\ EntryIdle /\ FilterIdle
    /\ WsgiIdle /\ GetIdle /\ FetchIdle /\ ReactionIdle
    /\ files = <<>> /\ sv_calls = <<>> /\ sv_printed = <<>>

SpecSave == SaveInit /\ [][save_matches_to_file_call]_vars

C23_SameTarget(c, d) ==
    /\ c.repo = d.repo /\ c.source = d.source
    /\ c.with_matched_text = d.with_matched_text

C23_Path(c) ==
    <<IF c.with_matched_text THEN "full" ELSE "", c.repo, c.source>>

C23_Rows(c) ==
    [k \in 1..Len(c.records) |-> <<c.records[k], c.with_matched_text>>]

\* C23: the file at the path of a (repo, source, with_matched_text) holds
\* the records of the most recent call for it; when that call had no
\* records, no records of an earlier call are there.
C23_FileReflectsLastCall ==
    \A k \in 1..Len(sv_calls) :
        (\A m \in (k + 1)..Len(sv_calls) :
            ~C23_SameTarget(sv_calls[k], sv_calls[m]))
        => IF sv_calls[k].records = <<>>
           THEN \/ C23_Path(sv_calls[k]) \notin DOMAIN files
                \/ files[C23_Path(sv_calls[k])] = <<>>
           ELSE /\ C23_Path(sv_calls[k]) \in DOMAIN files
                /\ files[C23_Path(sv_calls[k])] = C23_Rows(sv_calls[k])

\* what holds instead: the file holds the records of the most recent call
\* that had any, and is not there when none had
C23_FileReflectsLastCallWithRecords ==
    /\ \A k \in 1..Len(sv_calls) :
          (/\ sv_calls[k].records # <<>>
           /\ \A m \in (k + 1)..Len(sv_calls) :
                 C23_SameTarget(sv_calls[k], sv_calls[m])
                    => sv_calls[m].records = <<>>)
          => /\ C23_Path(sv_calls[k]) \in DOMAIN files
             /\ files[C23_Path(sv_calls[k])] = C23_Rows(sv_calls[k])
    /\ \A f \in DOMAIN files :
          \E k \in 1..Len(sv_calls) :
             C23_Path(sv_calls[k]) = f /\ sv_calls[k].records # <<>>

====
